---- MODULE Spec2Model ----
(***************************************************************************)
(* Model of lib/cdk-test-stack.ts: the constructor of CdkTestStack,        *)
(* statement by statement, the synthesis of the app, and the executions of *)
(* the pipeline test-api-pipeline that the stack declares (Source, Build   *)
(* with its buildspec, Deploy).                                            *)
(***************************************************************************)
EXTENDS Integers, Sequences, FiniteSets, TLC

VARIABLES
    context,      \* the deployment context read by tryGetContext("env")
    pc,           \* position of the constructor / of the program
    tree,         \* construct id -> properties, the constructs declared so far
    ingress,      \* ingress rules added to TestAPISecurityGroup
    containers,   \* containers added to TestAPITaskDefinition, in order
    buildPolicy,  \* policy statements added to TestAPIBuildRole
    stages,       \* stages added to TestAPIPipeline, in order
    services,     \* the provisioned services of the cluster (none before provisioning)
    registry,     \* images in test-ecr-repository: set of [tag, run]
    runs,         \* number of pipeline executions started
    exec,         \* the current pipeline execution
    artifacts,    \* pipeline artifacts produced in the current execution
    build,        \* the build environment of the current execution
    iamCalls,     \* registry API actions the build script has invoked
    deployInput   \* the artifacts the Deploy action has read in the current execution

vars == <<context, pc, tree, ingress, containers, buildPolicy, stages, services,
          registry, runs, exec, artifacts, build, iamCalls, deployInput>>

constructorVars == <<tree, ingress, containers, buildPolicy, stages>>
runtimeVars == <<services, registry, runs, exec, artifacts, build, iamCalls, deployInput>>

----------------------------------------------------------------------------
(* Bounds *)

\* pipeline executions per behaviour
MaxRuns == 2

\* length of a commit id
HashLen == 8

----------------------------------------------------------------------------
(* Inputs *)

\* values of context key "env": absent, present without myIPAddress, present
Contexts ==
    { [hasEnv |-> FALSE, myIPAddress |-> "undefined"],
      [hasEnv |-> TRUE,  myIPAddress |-> "undefined"],
      [hasEnv |-> TRUE,  myIPAddress |-> "203.0.113.7/32"],
      [hasEnv |-> TRUE,  myIPAddress |-> "198.51.100.9/32"] }

\* commit ids of the source repository
Commits == { [i \in 1..HashLen |-> d] : d \in {1, 2} }

----------------------------------------------------------------------------
(* Image tags and references *)

LatestTag == [latest |-> TRUE, hash |-> <<>>]
HashTag(h) == [latest |-> FALSE, hash |-> h]
\* the expansion of an unset shell variable
EmptyTag == HashTag(<<>>)

\* cut -c 1-7
Cut7(s) == SubSeq(s, 1, IF Len(s) < 7 THEN Len(s) ELSE 7)

\* IMAGE_TAG=${COMMIT_HASH:=latest}
ImageTag(commitHash) == IF commitHash = <<>> THEN LatestTag ELSE HashTag(commitHash)

ImageRef(repo, tag) == [repo |-> repo, tag |-> tag]

----------------------------------------------------------------------------
(* The declarations of the constructor. A reference to another construct  *)
(* is the id of that construct.                                           *)

testAPIVPC ==
    [ cidr |-> "10.0.0.0/23", maxAzs |-> 1,
      subnetConfiguration |->
          << [cidrMask |-> 23, name |-> "PublicSubnet", subnetType |-> "PUBLIC"] >> ]

testAPISecurityGroup ==
    [ vpc |-> "TestAPIVPC", allowAllOutbound |-> TRUE,
      securityGroupName |-> "TestAPISecurityGroup" ]

\* as with optional chaining: an absent "env" is read as undefined
ContextThrows_Never(ctx) == FALSE

\* this.node.tryGetContext("env").myIPAddress throws when "env" is absent;
\* ec2.Peer.ipv4 throws on a value that is not a string
ContextThrows(ctx) == ~ctx.hasEnv \/ ctx.myIPAddress = "undefined"

\* as with ec2.Peer.anyIpv4()
IngressRule_AnyIpv4(ctx) ==
    [peer |-> "0.0.0.0/0", protocol |-> "tcp", fromPort |-> 80, toPort |-> 80]

\* ec2.Peer.ipv4(...myIPAddress), ec2.Port.tcp(80)
IngressRule(ctx) ==
    [peer |-> ctx.myIPAddress, protocol |-> "tcp", fromPort |-> 80, toPort |-> 80]

testAPIECRRepository == [repositoryName |-> "test-ecr-repository"]

\* testAPIECRRepository.repositoryUri: the registry host followed by the
\* repository's name; within one account and region the name determines it
RepositoryUri(repo) == repo.repositoryName

\* a cluster declared without vpc creates a network of its own
testAPIECSCluster_OwnVpc == [vpc |-> "TestAPICluster/Vpc"]

testAPIECSCluster == [vpc |-> "TestAPIVPC"]

testAPITaskRole ==
    [ assumedBy |-> "ecs-tasks.amazonaws.com",
      managedPolicies |-> {"service-role/AmazonECSTaskExecutionRolePolicy"} ]

testAPITask ==
    [ family |-> "test-api-family", compatibility |-> "FARGATE",
      networkMode |-> "AWS_VPC", cpu |-> "1024", memoryMiB |-> "3072",
      executionRole |-> "TestAPITaskRole", taskRole |-> "TestAPITaskRole",
      cpuArchitecture |-> "ARM64" ]

\* as with ecs.ContainerImage.fromRegistry("test-api")
FromEcrRepository_OtherRegistry(repo) == ImageRef("test-api", LatestTag)

\* ecs.ContainerImage.fromEcrRepository(repo): the repository's tag "latest"
FromEcrRepository(repo) == ImageRef(RepositoryUri(repo), LatestTag)

testAPIContainer ==
    [ name |-> "test-api-task",
      image |-> FromEcrRepository(testAPIECRRepository),
      portMappings |->
          << [name |-> "test-api-80-tcp", containerPort |-> 80, hostPort |-> 80,
              protocol |-> "tcp"] >>,
      essential |-> TRUE ]

testAPIService_OneTask ==
    [ cluster |-> "TestAPICluster", taskDefinition |-> "TestAPITaskDefinition",
      desiredCount |-> 1, securityGroups |-> <<"TestAPISecurityGroup">> ]

testAPIService ==
    [ cluster |-> "TestAPICluster", taskDefinition |-> "TestAPITaskDefinition",
      desiredCount |-> 0, securityGroups |-> <<"TestAPISecurityGroup">> ]

testAPIPipeline == [pipelineName |-> "test-api-pipeline"]

repository == [repositoryName |-> "test-api"]

sourceAction ==
    [ actionName |-> "Source", type |-> "CodeCommitSource",
      target |-> "TestAPIRepository", inputs |-> <<>>, outputs |-> <<"sourceOutput">> ]

SourceStage == [stageName |-> "Source", actions |-> <<sourceAction>>]

buildRole == [assumedBy |-> "codebuild.amazonaws.com"]

buildRoleStatement ==
    [ actions |-> { "ecr:GetDownloadUrlForLayer", "ecr:BatchGetImage",
                    "ecr:BatchCheckLayerAvailability" },
      resources |-> "*" ]

\* the manifest written before the pushes
buildSpec_ManifestFirst ==
    [ pre_build  |-> << "ecr get-login-password | docker login",
                        "REPOSITORY_URI=",
                        "COMMIT_HASH=",
                        "IMAGE_TAG=" >>,
      build      |-> << "n install 16",
                        "npm install",
                        "npm test",
                        "docker build -t REPOSITORY_URI:latest",
                        "docker tag REPOSITORY_URI:latest REPOSITORY_URI:IMAGE_TAG" >>,
      post_build |-> << "printf > imagedefinitions.json",
                        "docker push REPOSITORY_URI:latest",
                        "docker push REPOSITORY_URI:IMAGE_TAG" >>,
      artifacts  |-> {"imagedefinitions.json"} ]

\* the commands of the buildspec, phase by phase, in the order written
buildSpec ==
    [ pre_build  |-> << "ecr get-login-password | docker login",
                        "REPOSITORY_URI=",
                        "COMMIT_HASH=",
                        "IMAGE_TAG=" >>,
      build      |-> << "n install 16",
                        "npm install",
                        "npm test",
                        "docker build -t REPOSITORY_URI:latest",
                        "docker tag REPOSITORY_URI:latest REPOSITORY_URI:IMAGE_TAG" >>,
      post_build |-> << "docker push REPOSITORY_URI:latest",
                        "docker push REPOSITORY_URI:IMAGE_TAG",
                        "printf > imagedefinitions.json" >>,
      artifacts  |-> {"imagedefinitions.json"} ]

\* the "name" the printf command writes into imagedefinitions.json
ManifestContainerName == "next-container-task"

buildProject == [role |-> "TestAPIBuildRole", buildSpec |-> buildSpec]

buildAction ==
    [ actionName |-> "Build", type |-> "CodeBuild",
      target |-> "TestAPIBuild", inputs |-> <<"sourceOutput">>, outputs |-> <<>> ]

deployAction ==
    [ actionName |-> "Deploy", type |-> "EcsDeploy",
      target |-> "TestAPIService", inputs |-> <<"sourceOutput">>, outputs |-> <<>> ]

\* the deploy action put into the build stage as well
BuildStage_TwoActions ==
    [stageName |-> "Build", actions |-> <<buildAction, deployAction>>]

BuildStage == [stageName |-> "Build", actions |-> <<buildAction>>]

DeployStage == [stageName |-> "Deploy", actions |-> <<deployAction>>]

----------------------------------------------------------------------------
(* Initial state: nothing declared, no execution *)

NoExec ==
    [ id |-> 0, commit |-> <<>>, sourceFiles |-> {}, status |-> "none",
      started |-> <<>>, completed |-> <<>> ]

NoBuild ==
    [ phase |-> "idle", idx |-> 0, failed |-> FALSE, loggedIn |-> FALSE,
      repositoryUri |-> "", commitHash |-> <<>>, imageTag |-> EmptyTag,
      local |-> {}, files |-> {}, log |-> <<>> ]

Init ==
    /\ context \in Contexts
    /\ pc = "vpc"
    /\ tree = [id \in {} |-> {}]
    /\ ingress = {}
    /\ containers = <<>>
    /\ buildPolicy = {}
    /\ stages = <<>>
    /\ services = <<>>
    /\ registry = {}
    /\ runs = 0
    /\ exec = NoExec
    /\ artifacts = {}
    /\ build = NoBuild
    /\ iamCalls = {}
    /\ deployInput = <<>>

----------------------------------------------------------------------------
(* The constructor, one action per statement *)

Declared(id) == id \in DOMAIN tree

\* new X(this, id, props)
Declare(at, id, props, next) ==
    /\ pc = at
    /\ tree' = tree @@ (id :> props)
    /\ pc' = next

DeclareVPC ==
    /\ Declare("vpc", "TestAPIVPC", testAPIVPC, "sg")
    /\ UNCHANGED <<context, ingress, containers, buildPolicy, stages, runtimeVars>>

DeclareSecurityGroup ==
    /\ Declare("sg", "TestAPISecurityGroup", testAPISecurityGroup, "ingress")
    /\ UNCHANGED <<context, ingress, containers, buildPolicy, stages, runtimeVars>>

\* testAPISecurityGroup.addIngressRule(...): the argument is evaluated first,
\* and an exception leaves the constructor
AddIngressRule ==
    /\ pc = "ingress"
    /\ IF ContextThrows(context)
          THEN /\ pc' = "error"
               /\ UNCHANGED ingress
          ELSE /\ pc' = "ecr"
               /\ ingress' = ingress \cup {IngressRule(context)}
    /\ UNCHANGED <<context, tree, containers, buildPolicy, stages, runtimeVars>>

DeclareECRRepository ==
    /\ Declare("ecr", "TestAPIECRRepository", testAPIECRRepository, "cluster")
    /\ UNCHANGED <<context, ingress, containers, buildPolicy, stages, runtimeVars>>

DeclareCluster ==
    /\ Declare("cluster", "TestAPICluster", testAPIECSCluster, "taskRole")
    /\ UNCHANGED <<context, ingress, containers, buildPolicy, stages, runtimeVars>>

DeclareTaskRole ==
    /\ Declare("taskRole", "TestAPITaskRole", testAPITaskRole, "taskDef")
    /\ UNCHANGED <<context, ingress, containers, buildPolicy, stages, runtimeVars>>

DeclareTaskDefinition ==
    /\ Declare("taskDef", "TestAPITaskDefinition", testAPITask, "container")
    /\ UNCHANGED <<context, ingress, containers, buildPolicy, stages, runtimeVars>>

\* testAPITask.addContainer("test-api-task", ...)
AddContainer ==
    /\ pc = "container"
    /\ containers' = Append(containers, testAPIContainer)
    /\ pc' = "service"
    /\ UNCHANGED <<context, tree, ingress, buildPolicy, stages, runtimeVars>>

DeclareService ==
    /\ Declare("service", "TestAPIService", testAPIService, "pipeline")
    /\ UNCHANGED <<context, ingress, containers, buildPolicy, stages, runtimeVars>>

DeclarePipeline ==
    /\ Declare("pipeline", "TestAPIPipeline", testAPIPipeline, "sourceStage")
    /\ UNCHANGED <<context, ingress, containers, buildPolicy, stages, runtimeVars>>

\* the source repository, its action, and addStage
AddSourceStage ==
    /\ Declare("sourceStage", "TestAPIRepository", repository, "buildRole")
    /\ stages' = Append(stages, SourceStage)
    /\ UNCHANGED <<context, ingress, containers, buildPolicy, runtimeVars>>

\* the build role and buildRole.addToPolicy
DeclareBuildRole ==
    /\ Declare("buildRole", "TestAPIBuildRole", buildRole, "buildProject")
    /\ buildPolicy' = buildPolicy \cup {buildRoleStatement}
    /\ UNCHANGED <<context, ingress, containers, stages, runtimeVars>>

DeclareBuildProject ==
    /\ Declare("buildProject", "TestAPIBuild", buildProject, "buildStage")
    /\ UNCHANGED <<context, ingress, containers, buildPolicy, stages, runtimeVars>>

AddBuildStage ==
    /\ pc = "buildStage"
    /\ stages' = Append(stages, BuildStage)
    /\ pc' = "deployStage"
    /\ UNCHANGED <<context, tree, ingress, containers, buildPolicy, runtimeVars>>

AddDeployStage ==
    /\ pc = "deployStage"
    /\ stages' = Append(stages, DeployStage)
    /\ pc' = "synth"
    /\ UNCHANGED <<context, tree, ingress, containers, buildPolicy, runtimeVars>>

\* app.synth(): reached only when the constructor returned
Synth ==
    /\ pc = "synth"
    /\ pc' = "synthesized"
    /\ UNCHANGED <<context, constructorVars, runtimeVars>>

\* the synthesized topology is provisioned: the service is created as declared
Provision ==
    /\ pc = "synthesized"
    /\ pc' = "provisioned"
    /\ services' =
          << [ name |-> "TestAPIService",
               cluster |-> tree["TestAPIService"].cluster,
               desiredCount |-> tree["TestAPIService"].desiredCount,
               securityGroups |-> tree["TestAPIService"].securityGroups,
               images |-> [i \in 1..Len(containers) |->
                              [name |-> containers[i].name, image |-> containers[i].image]],
               deployments |-> 0 ] >>
    /\ UNCHANGED <<context, constructorVars, registry, runs, exec, artifacts, build,
                   iamCalls, deployInput>>

----------------------------------------------------------------------------
(* Executions of the pipeline. The stages run in the order of the stage   *)
(* list; a stage runs the action it holds.                                *)

Range(f) == {f[i] : i \in DOMAIN f}

Manifest(name, image) == [name |-> name, imageUri |-> image]

\* what a commit of the source repository may hold under the name
\* imagedefinitions.json: nothing, or a manifest naming some container
SourceFileSets ==
    { {} } \cup
    { {Manifest(n, ImageRef("test-ecr-repository", LatestTag))} :
          n \in {"test-api-task", "next-container-task"} }

Artifact(name, producer, files) ==
    [name |-> name, producer |-> producer, run |-> exec.id, files |-> files]

Running == pc = "provisioned" /\ exec.status = "running"

\* the stage the execution is at: the one after the stages completed
StageReady ==
    /\ Running
    /\ Len(exec.started) = Len(exec.completed)
    /\ Len(exec.completed) < Len(stages)

CurrentStage == stages[Len(exec.completed) + 1]
CurrentAction == CurrentStage.actions[1]

StartStage(e) == [e EXCEPT !.started = Append(@, CurrentStage.stageName)]

\* the stage has succeeded: the execution moves on, or ends after the last stage
CompleteStage(e) ==
    [e EXCEPT !.completed = Append(@, e.started[Len(e.started)]),
              !.status = IF Len(e.completed) + 1 = Len(stages)
                            THEN "succeeded" ELSE "running"]

FailStage(e) == [e EXCEPT !.status = "failed"]

InputsPresent(action) ==
    \A n \in Range(action.inputs) : \E a \in artifacts : a.name = n

InputArtifact(action) == CHOOSE a \in artifacts : a.name = action.inputs[1]

\* a commit to the source repository starts an execution
StartRun ==
    /\ pc = "provisioned"
    /\ exec.status # "running"
    /\ runs < MaxRuns
    /\ \E c \in Commits, fs \in SourceFileSets :
          exec' = [ id |-> runs + 1, commit |-> c, sourceFiles |-> fs,
                    status |-> "running", started |-> <<>>, completed |-> <<>> ]
    /\ runs' = runs + 1
    /\ artifacts' = {}
    /\ build' = NoBuild
    /\ deployInput' = <<>>
    /\ UNCHANGED <<context, pc, constructorVars, services, registry, iamCalls>>

\* the Source action: the commit becomes the action's output artifact
RunSource ==
    /\ StageReady
    /\ CurrentAction.type = "CodeCommitSource"
    /\ artifacts' = artifacts \cup
          { Artifact(n, CurrentAction.actionName, exec.sourceFiles) :
                n \in Range(CurrentAction.outputs) }
    /\ exec' = CompleteStage(StartStage(exec))
    /\ UNCHANGED <<context, pc, constructorVars, services, registry, runs, build,
                   iamCalls, deployInput>>

----------------------------------------------------------------------------
(* The Build action: the buildspec, command by command *)

Phases == <<"pre_build", "build", "post_build">>

Commands(phase) ==
    LET spec == tree[CurrentAction.target].buildSpec
    IN  CASE phase = "pre_build"  -> spec.pre_build
          [] phase = "build"      -> spec.build
          [] phase = "post_build" -> spec.post_build

\* registry API actions a command invokes under the build role
RegistryActions(cmd) ==
    CASE cmd = "ecr get-login-password | docker login" -> {"ecr:GetAuthorizationToken"}
      [] cmd \in { "docker push REPOSITORY_URI:latest",
                   "docker push REPOSITORY_URI:IMAGE_TAG" } ->
            { "ecr:BatchCheckLayerAvailability", "ecr:InitiateLayerUpload",
              "ecr:UploadLayerPart", "ecr:CompleteLayerUpload", "ecr:PutImage" }
      [] OTHER -> {}

\* the image a push command names
Pushed(cmd, b) ==
    CASE cmd = "docker push REPOSITORY_URI:latest" ->
            {ImageRef(b.repositoryUri, LatestTag)}
      [] cmd = "docker push REPOSITORY_URI:IMAGE_TAG" ->
            {ImageRef(b.repositoryUri, b.imageTag)}
      [] OTHER -> {}

\* what a command needs in the build environment to succeed; beyond that its
\* outcome is the registry's, the network's or the test suite's
CanSucceed(cmd, b) ==
    CASE cmd = "docker tag REPOSITORY_URI:latest REPOSITORY_URI:IMAGE_TAG" ->
            ImageRef(b.repositoryUri, LatestTag) \in b.local
      [] cmd \in { "docker push REPOSITORY_URI:latest",
                   "docker push REPOSITORY_URI:IMAGE_TAG" } ->
            b.loggedIn /\ Pushed(cmd, b) \subseteq b.local
      [] OTHER -> TRUE

\* a variable assignment or a printf cannot fail
CanFail(cmd) ==
    cmd \notin {"REPOSITORY_URI=", "COMMIT_HASH=", "IMAGE_TAG=",
                "printf > imagedefinitions.json"}

\* the build environment after the command has succeeded
Effect(cmd, b) ==
    CASE cmd = "ecr get-login-password | docker login" ->
            [b EXCEPT !.loggedIn = TRUE]
      [] cmd = "REPOSITORY_URI=" ->
            [b EXCEPT !.repositoryUri = RepositoryUri(tree["TestAPIECRRepository"])]
      [] cmd = "COMMIT_HASH=" ->
            [b EXCEPT !.commitHash = Cut7(exec.commit)]
      [] cmd = "IMAGE_TAG=" ->
            [b EXCEPT !.imageTag = ImageTag(b.commitHash)]
      [] cmd = "docker build -t REPOSITORY_URI:latest" ->
            [b EXCEPT !.local = @ \cup {ImageRef(b.repositoryUri, LatestTag)}]
      [] cmd = "docker tag REPOSITORY_URI:latest REPOSITORY_URI:IMAGE_TAG" ->
            [b EXCEPT !.local = @ \cup {ImageRef(b.repositoryUri, b.imageTag)}]
      [] cmd = "printf > imagedefinitions.json" ->
            [b EXCEPT !.files = { Manifest(ManifestContainerName,
                                           ImageRef(b.repositoryUri, LatestTag)) }]
      [] OTHER -> b

\* the next command after a success: the next of the phase, or the next phase
Advance(b) ==
    IF b.idx < Len(Commands(b.phase))
       THEN [b EXCEPT !.idx = @ + 1]
       ELSE CASE b.phase = "pre_build"  -> [b EXCEPT !.phase = "build", !.idx = 1]
              [] b.phase = "build"      -> [b EXCEPT !.phase = "post_build", !.idx = 1]
              [] b.phase = "post_build" -> [b EXCEPT !.phase = "finished", !.idx = 0]

\* a failed command ends its phase and fails the build; post_build still runs
\* after a failed build phase
Abort(b) ==
    IF b.phase = "build"
       THEN [b EXCEPT !.failed = TRUE, !.phase = "post_build", !.idx = 1]
       ELSE [b EXCEPT !.failed = TRUE, !.phase = "finished", !.idx = 0]

\* the registry after the images are pushed by the current execution
Push(reg, refs) ==
    {r \in reg : r.ref \notin refs} \cup {[ref |-> i, run |-> exec.id] : i \in refs}

BuildBegin ==
    /\ StageReady
    /\ CurrentAction.type = "CodeBuild"
    /\ IF InputsPresent(CurrentAction)
          THEN /\ exec' = StartStage(exec)
               /\ build' = [NoBuild EXCEPT !.phase = "pre_build", !.idx = 1]
          ELSE /\ exec' = FailStage(StartStage(exec))
               /\ UNCHANGED build
    /\ UNCHANGED <<context, pc, constructorVars, services, registry, runs, artifacts,
                   iamCalls, deployInput>>

BuildStep ==
    /\ Running
    /\ build.phase \in Range(Phases)
    /\ LET cmd == Commands(build.phase)[build.idx]
       IN  /\ iamCalls' = iamCalls \cup RegistryActions(cmd)
           /\ \E ok \in BOOLEAN :
                 /\ ok => CanSucceed(cmd, build)
                 /\ ~ok => CanFail(cmd) \/ ~CanSucceed(cmd, build)
                 /\ IF ok
                       THEN /\ build' = Advance([Effect(cmd, build) EXCEPT
                                                    !.log = Append(@, cmd)])
                            /\ registry' = Push(registry, Pushed(cmd, build))
                       ELSE /\ build' = Abort(build)
                            /\ UNCHANGED registry
    /\ UNCHANGED <<context, pc, constructorVars, services, runs, exec, artifacts,
                   deployInput>>

\* the build has ended: a successful one uploads the files the buildspec names
\* as the output artifacts the action declares
BuildEnd ==
    /\ Running
    /\ build.phase = "finished"
    /\ Len(exec.started) = Len(exec.completed) + 1
    /\ IF build.failed
          THEN /\ exec' = FailStage(exec)
               /\ UNCHANGED artifacts
          ELSE /\ exec' = CompleteStage(exec)
               /\ artifacts' = artifacts \cup
                     { Artifact(n, CurrentAction.actionName,
                                IF "imagedefinitions.json" \in
                                       tree[CurrentAction.target].buildSpec.artifacts
                                   THEN build.files ELSE {}) :
                           n \in Range(CurrentAction.outputs) }
    /\ build' = [build EXCEPT !.phase = "idle"]
    /\ UNCHANGED <<context, pc, constructorVars, services, registry, runs, iamCalls,
                   deployInput>>

----------------------------------------------------------------------------
(* The Deploy action: imagedefinitions.json of the input artifact names,  *)
(* per container of the service, the image to run                         *)

\* the containers of the service with the manifest's images
UpdateImages(images, manifest) ==
    [ i \in DOMAIN images |->
        IF \E m \in manifest : m.name = images[i].name
           THEN [ name |-> images[i].name,
                  image |-> (CHOOSE m \in manifest : m.name = images[i].name).imageUri ]
           ELSE images[i] ]

Deployable(svc, manifest) ==
    /\ manifest # {}
    /\ \A m \in manifest : \E i \in DOMAIN svc.images : svc.images[i].name = m.name

RunDeploy ==
    /\ StageReady
    /\ CurrentAction.type = "EcsDeploy"
    /\ IF ~InputsPresent(CurrentAction)
          THEN /\ exec' = FailStage(StartStage(exec))
               /\ UNCHANGED <<services, deployInput>>
          ELSE LET a == InputArtifact(CurrentAction)
               IN  /\ deployInput' = Append(deployInput, a)
                   /\ IF Deployable(services[1], a.files)
                         THEN /\ services' =
                                    [services EXCEPT
                                        ![1].images = UpdateImages(@, a.files),
                                        ![1].deployments = @ + 1]
                              /\ exec' = CompleteStage(StartStage(exec))
                         ELSE /\ exec' = FailStage(StartStage(exec))
                              /\ UNCHANGED services
    /\ UNCHANGED <<context, pc, constructorVars, registry, runs, artifacts, build,
                   iamCalls>>

----------------------------------------------------------------------------

Next ==
    \/ DeclareVPC
    \/ DeclareSecurityGroup
    \/ AddIngressRule
    \/ DeclareECRRepository
    \/ DeclareCluster
    \/ DeclareTaskRole
    \/ DeclareTaskDefinition
    \/ AddContainer
    \/ DeclareService
    \/ DeclarePipeline
    \/ AddSourceStage
    \/ DeclareBuildRole
    \/ DeclareBuildProject
    \/ AddBuildStage
    \/ AddDeployStage
    \/ Synth
    \/ Provision
    \/ StartRun
    \/ RunSource
    \/ BuildBegin
    \/ BuildStep
    \/ BuildEnd
    \/ RunDeploy

Spec == Init /\ [][Next]_vars

----------------------------------------------------------------------------
(* Properties *)

ConstructorReturned == pc \in {"synth", "synthesized", "provisioned"}

IsPrefix(s, t) == Len(s) <= Len(t) /\ \A i \in 1..Len(s) : s[i] = t[i]

\* C1: in every execution the artifact the Deploy action reads is the one the
\* Build action of that execution produced, the one holding imagedefinitions.json
C1_DeployReadsBuildArtifact ==
    \A i \in DOMAIN deployInput :
        /\ deployInput[i].producer = "Build"
        /\ deployInput[i].run = exec.id

\* C2: the pipeline has the three stages Source, Build, Deploy in this order,
\* each with one action; in an execution a stage starts only when the stages
\* before it have completed, and no stage runs twice or out of order
C2_StagesInOrder ==
    /\ ConstructorReturned =>
          /\ tree["TestAPIPipeline"].pipelineName = "test-api-pipeline"
          /\ [i \in DOMAIN stages |-> stages[i].stageName] = <<"Source", "Build", "Deploy">>
          /\ \A i \in DOMAIN stages : Len(stages[i].actions) = 1
    /\ IsPrefix(exec.started, <<"Source", "Build", "Deploy">>)
    /\ IsPrefix(exec.completed, exec.started)
    /\ Len(exec.started) <= Len(exec.completed) + 1

C2_Witness ==
    /\ exec.status = "succeeded"
    /\ exec.completed = <<"Source", "Build", "Deploy">>

\* position of a command among the commands that have run in the build, 0 if none
Pos(cmd) ==
    IF \E i \in DOMAIN build.log : build.log[i] = cmd
       THEN CHOOSE i \in DOMAIN build.log : build.log[i] = cmd
       ELSE 0

Before(c, d) == Pos(d) # 0 => (Pos(c) # 0 /\ Pos(c) < Pos(d))

PushedByRun == {r.ref : r \in {x \in registry : x.run = exec.id}}

\* C3: in every build the steps run in the order login, build, tag, push of
\* both tags, manifest: an image is built only after the login, the hash tag
\* is set only on the built image, a tag is pushed only after it was built or
\* tagged in this build, and the manifest is written only after both pushes
C3_BuildScriptOrder ==
    /\ Before("ecr get-login-password | docker login",
              "docker build -t REPOSITORY_URI:latest")
    /\ Before("docker build -t REPOSITORY_URI:latest",
              "docker tag REPOSITORY_URI:latest REPOSITORY_URI:IMAGE_TAG")
    /\ Before("docker build -t REPOSITORY_URI:latest",
              "docker push REPOSITORY_URI:latest")
    /\ Before("docker tag REPOSITORY_URI:latest REPOSITORY_URI:IMAGE_TAG",
              "docker push REPOSITORY_URI:IMAGE_TAG")
    /\ Before("docker push REPOSITORY_URI:latest",
              "docker push REPOSITORY_URI:IMAGE_TAG")
    /\ Before("docker push REPOSITORY_URI:latest", "printf > imagedefinitions.json")
    /\ Before("docker push REPOSITORY_URI:IMAGE_TAG", "printf > imagedefinitions.json")
    /\ \A i, j \in DOMAIN build.log : build.log[i] = build.log[j] => i = j
    /\ PushedByRun \subseteq build.local
    /\ build.files # {} =>
          /\ Pos("printf > imagedefinitions.json") # 0
          /\ { ImageRef("test-ecr-repository", LatestTag),
               ImageRef("test-ecr-repository", HashTag(SubSeq(exec.commit, 1, 7))) }
                 \subseteq PushedByRun
          /\ \A m \in build.files :
                m.imageUri = ImageRef("test-ecr-repository", LatestTag)

C3_Witness ==
    /\ build.files # {}
    /\ build.phase = "finished"
    /\ ~build.failed

\* C4: the service is declared with desired count 0, and it is still 0 after
\* provisioning and after any number of pipeline executions
C4_DesiredCountZero ==
    /\ Declared("TestAPIService") => tree["TestAPIService"].desiredCount = 0
    /\ \A i \in DOMAIN services : services[i].desiredCount = 0

C4_Witness ==
    /\ Len(services) = 1
    /\ services[1].deployments >= 1
    /\ runs >= 2

\* C5: every security group attached to the service is in the network the
\* service's cluster is bound to, TestAPIVPC, and the service is bound to
\* TestAPICluster
C5_ServiceNetworkIsClusterNetwork ==
    Declared("TestAPIService") =>
        LET svc == tree["TestAPIService"]
        IN  /\ svc.cluster = "TestAPICluster"
            /\ Declared(svc.cluster)
            /\ Declared("TestAPIVPC")
            /\ tree[svc.cluster].vpc = "TestAPIVPC"
            /\ svc.securityGroups # <<>>
            /\ \A g \in Range(svc.securityGroups) :
                  /\ Declared(g)
                  /\ tree[g].vpc = tree[svc.cluster].vpc
            /\ \A i \in DOMAIN services :
                  /\ services[i].cluster = svc.cluster
                  /\ services[i].securityGroups = svc.securityGroups

C5_Witness ==
    /\ Declared("TestAPIService")
    /\ Len(services) = 1

\* C6: the security group of the service has exactly one ingress rule, TCP on
\* port 80 from the address the context gives as env.myIPAddress, and no rule
\* admits any other port or any other source
C6_SingleIngressRule ==
    /\ \A r \in ingress :
          /\ r.protocol = "tcp"
          /\ r.fromPort = 80 /\ r.toPort = 80
          /\ context.hasEnv /\ r.peer = context.myIPAddress
    /\ Declared("TestAPIService") =>
          /\ Cardinality(ingress) = 1
          /\ tree["TestAPIService"].securityGroups = <<"TestAPISecurityGroup">>

C6_Witness ==
    /\ pc = "provisioned"
    /\ Cardinality(ingress) = 1

\* C7: the task specification test-api-family has exactly one container with
\* exactly one port mapping, container port 80 over TCP, and its image is in
\* test-ecr-repository, the repository every push of the build goes to
C7_OneContainerFromRegistry ==
    /\ Declared("TestAPIService") =>
          /\ tree[tree["TestAPIService"].taskDefinition].family = "test-api-family"
          /\ Len(containers) = 1
          /\ Len(containers[1].portMappings) = 1
          /\ containers[1].portMappings[1].containerPort = 80
          /\ containers[1].portMappings[1].protocol = "tcp"
          /\ tree["TestAPIECRRepository"].repositoryName = "test-ecr-repository"
          /\ containers[1].image.repo = "test-ecr-repository"
    /\ \A r \in registry : \A i \in DOMAIN containers : r.ref.repo = containers[i].image.repo

C7_Witness ==
    /\ Len(containers) = 1
    /\ registry # {}

\* C8: the container name in the manifest the build writes is the name of a
\* container of the task specification of the service the deploy updates
C8_ManifestNamesDeclaredContainer ==
    \A m \in build.files : \E i \in DOMAIN containers : containers[i].name = m.name

\* C9: every registry operation the build script performs is allowed by a
\* policy statement attached to TestAPIBuildRole
C9_RegistryCallsPermitted ==
    \A a \in iamCalls : \E st \in buildPolicy : a \in st.actions

\* C10: without the context key "env" the constructor fails at the ingress
\* rule: nothing after the security group is declared and nothing is
\* synthesized
C10_NoEnvNoTopology ==
    ~context.hasEnv =>
        /\ pc \in {"vpc", "sg", "ingress", "error"}
        /\ DOMAIN tree \subseteq {"TestAPIVPC", "TestAPISecurityGroup"}
        /\ ingress = {}
        /\ containers = <<>>
        /\ buildPolicy = {}
        /\ stages = <<>>
        /\ services = <<>>

C10_Witness ==
    /\ ~context.hasEnv
    /\ pc = "error"
    /\ DOMAIN tree = {"TestAPIVPC", "TestAPISecurityGroup"}

====
